---- MODULE Spec2Model ----
(***************************************************************************)
(* A model of the schema-driven YAML loader of src/src/load.c: the entry   *)
(* points, the drive loop of cyaml__load, the per-state handlers, the      *)
(* evaluation stack, the placement engine and the INT scalar decoder.      *)
(*                                                                         *)
(* Memory is modelled byte by byte.  A block of the heap is a sequence of  *)
(* cells; a cell is a byte 0..255, the mark Uninit of a byte that was      *)
(* never written, or one of the eight bytes of a stored pointer.           *)
(***************************************************************************)
EXTENDS Integers, Sequences, FiniteSets, TLC

(* ------------------------------------------------------------------ *)
(* Bounds of the model.                                                *)
(* ------------------------------------------------------------------ *)

\* Events the producer delivers in one load before its input ends.
MaxEvents == 9

\* The events of a stream that fills the stack.
MaxDeepEvents == 30

(* ------------------------------------------------------------------ *)
(* Program constants.                                                  *)
(* ------------------------------------------------------------------ *)

CYAML_SCHEMA_IDX_NONE == 65535
StackChunk == 16
PtrSize == 8
ERANGE == 34

(* ------------------------------------------------------------------ *)
(* 64-bit arithmetic on little-endian sequences of eight bytes.        *)
(* ------------------------------------------------------------------ *)

\* let v be the value of an expression in F.
Bind(v, F(_)) == F(v)

Zero8 == <<0, 0, 0, 0, 0, 0, 0, 0>>
Ones8 == <<255, 255, 255, 255, 255, 255, 255, 255>>
\* LLONG_MAX = 2^63 - 1 and the magnitude of LLONG_MIN = 2^63.
LLongMaxMag == <<255, 255, 255, 255, 255, 255, 255, 127>>
LLongMinMag == <<0, 0, 0, 0, 0, 0, 0, 128>>

\* a < b, a <= b on magnitudes of equal length, from the top byte down.
RECURSIVE LimbLess(_, _, _)
LimbLess(a, b, i) ==
    IF i = 0 THEN FALSE
    ELSE IF a[i] # b[i] THEN a[i] < b[i]
    ELSE LimbLess(a, b, i - 1)

MagLess(a, b) == LimbLess(a, b, Len(a))
MagLeq(a, b) == a = b \/ MagLess(a, b)

\* a * m + c for a small multiplier m and carry c: <<limbs, carry out>>.
RECURSIVE LimbMulAdd(_, _, _, _)
LimbMulAdd(a, m, c, i) ==
    IF i > Len(a) THEN <<a, c>>
    ELSE LET t == a[i] * m + c
         IN  LimbMulAdd([a EXCEPT ![i] = t % 256], m, t \div 256, i + 1)

\* a >> (8 * n): drop the n low bytes, zero-fill the top.
ShiftRightBytes(a, n) ==
    [i \in 1..Len(a) |-> IF i + n <= Len(a) THEN a[i + n] ELSE 0]

\* a / 2 on an unsigned magnitude.
Half(a) ==
    [i \in 1..Len(a) |->
        (a[i] \div 2) + (IF i < Len(a) THEN (a[i + 1] % 2) * 128 ELSE 0)]

\* a + 1 on an unsigned magnitude (wraps at 2^64): the carry runs through
\* the low bytes that are 255.
Inc(a) ==
    [i \in 1..Len(a) |->
        IF \A j \in 1..(i - 1) : a[j] = 255 THEN (a[i] + 1) % 256 ELSE a[i]]

\* The two's complement bit pattern of -mag.
Negate(mag) == Inc([i \in 1..Len(mag) |-> 255 - mag[i]])

\* The bit pattern of the signed value sign * mag.
TwosComplement(neg, mag) == IF neg THEN Negate(mag) ELSE mag

\* The eight bytes of a small non-negative integer (uint32_t count).
IntToBytes(v) ==
    [i \in 1..8 |->
        CASE i = 1 -> v % 256
          [] i = 2 -> (v \div 256) % 256
          [] i = 3 -> (v \div 65536) % 256
          [] i = 4 -> (v \div 16777216) % 256
          [] OTHER -> 0]

(* ------------------------------------------------------------------ *)
(* Scalar texts: sequences of characters, as event->data.scalar.value. *)
(* ------------------------------------------------------------------ *)

\* The texts at and one past each bound of the widths 1 and 2.
NarrowTexts ==
    { <<"1", "2", "7">>,
      <<"1", "2", "8">>,
      <<"-", "1", "2", "8">>,
      <<"-", "1", "2", "9">>,
      <<"3", "2", "7", "6", "7">>,
      <<"3", "2", "7", "6", "8">>,
      <<"-", "3", "2", "7", "6", "8">>,
      <<"-", "3", "2", "7", "6", "9">> }

\* The texts at and one past each bound of the widths 4 and 8.
WideTexts ==
    { <<"2", "1", "4", "7", "4", "8", "3", "6", "4", "7">>,
      <<"2", "1", "4", "7", "4", "8", "3", "6", "4", "8">>,
      <<"-", "2", "1", "4", "7", "4", "8", "3", "6", "4", "8">>,
      <<"-", "2", "1", "4", "7", "4", "8", "3", "6", "4", "9">>,
      <<"9", "2", "2", "3", "3", "7", "2", "0", "3", "6", "8", "5", "4", "7", "7", "5", "8", "0", "7">>,
      <<"9", "2", "2", "3", "3", "7", "2", "0", "3", "6", "8", "5", "4", "7", "7", "5", "8", "0", "8">>,
      <<"-", "9", "2", "2", "3", "3", "7", "2", "0", "3", "6", "8", "5", "4", "7", "7", "5", "8", "0", "8">>,
      <<"-", "9", "2", "2", "3", "3", "7", "2", "0", "3", "6", "8", "5", "4", "7", "7", "5", "8", "0", "9">> }

BoundTexts == NarrowTexts \cup WideTexts

\* Other values: decimal, hexadecimal, octal, a signed one, trailing text,
\* a lone prefix, no digits at all, the empty text.
OtherTexts ==
    { <<"7">>, <<"0", "x", "1", "F">>, <<"0", "1", "7">>, <<"+", "5">>,
      <<" ", "4">>, <<"1", "2", "z">>, <<"0", "x">>, <<"z">>, <<>> }

DigitVal(ch) ==
    CASE ch = "0" -> 0 [] ch = "1" -> 1 [] ch = "2" -> 2 [] ch = "3" -> 3
      [] ch = "4" -> 4 [] ch = "5" -> 5 [] ch = "6" -> 6 [] ch = "7" -> 7
      [] ch = "8" -> 8 [] ch = "9" -> 9
      [] ch \in {"a", "A"} -> 10 [] ch \in {"b", "B"} -> 11
      [] ch \in {"c", "C"} -> 12 [] ch \in {"d", "D"} -> 13
      [] ch \in {"e", "E"} -> 14 [] ch \in {"f", "F"} -> 15
      [] OTHER -> 99

IsSpace(ch) == ch \in {" ", "\t", "\n"}

\* Index of the first character of t at or after i that is not white space.
RECURSIVE SkipSpace(_, _)
SkipSpace(t, i) ==
    IF i <= Len(t) /\ IsSpace(t[i]) THEN SkipSpace(t, i + 1) ELSE i

\* Consume the digits of `base` from t[i..]: the magnitude saturates at
\* `limit` and the overflow is remembered.  Result: <<mag, overflow, end>>.
RECURSIVE Accumulate(_, _, _, _, _, _)
Accumulate(t, i, base, limit, mag, over) ==
    IF i > Len(t) \/ DigitVal(t[i]) >= base THEN <<mag, over, i>>
    ELSE LET r == LimbMulAdd(mag, base, DigitVal(t[i]), 1)
             big == over \/ r[2] # 0 \/ MagLess(limit, r[1])
         IN  Accumulate(t, i + 1, base, limit,
                        IF big THEN limit ELSE r[1], big)

\* The digits of strtoll: t[s1..] after the white space and the sign.
\* 0x before a hexadecimal digit makes the base 16, a leading 0 makes it
\* 8, else it is 10.  `consumed` is end != value.
ParseDigits(t, s1, neg) ==
    Bind(/\ s1 + 2 <= Len(t)
         /\ t[s1] = "0"
         /\ t[s1 + 1] \in {"x", "X"}
         /\ DigitVal(t[s1 + 2]) < 16,
         LAMBDA isHex :
    Bind(IF isHex THEN s1 + 2 ELSE s1, LAMBDA s2 :
    Bind(Accumulate(t, s2,
                    IF isHex THEN 16
                    ELSE IF s1 <= Len(t) /\ t[s1] = "0" THEN 8 ELSE 10,
                    IF neg THEN LLongMinMag ELSE LLongMaxMag, Zero8, FALSE),
         LAMBDA r :
             [ consumed |-> r[3] > s2,
               range |-> r[3] > s2 /\ r[2],
               neg |-> r[3] > s2 /\ neg /\ r[1] # Zero8,
               mag |-> IF r[3] > s2 THEN r[1] ELSE Zero8 ])))

\* strtoll(value, &end, 0): white space, an optional sign, the digits.  On
\* overflow (range) the result is LLONG_MAX or LLONG_MIN and the caller
\* finds errno set to ERANGE; errno is otherwise left as it was.
strtoll(t) ==
    Bind(SkipSpace(t, 1), LAMBDA s0 :
        IF s0 <= Len(t) /\ t[s0] \in {"+", "-"}
        THEN ParseDigits(t, s0 + 1, t[s0] = "-")
        ELSE ParseDigits(t, s0, FALSE))

\* int64_t max = ((~(uint64_t)0) >> ((8 - data_size) * 8)) / 2, and the
\* magnitude of min = (-max) - 1.
IntMaxMag(data_size) == Half(ShiftRightBytes(Ones8, 8 - data_size))
IntMinMag(data_size) == Inc(IntMaxMag(data_size))

\* temp < min || temp > max, on sign and magnitude.
IntOutOfRange(r, data_size) ==
    IF r.neg THEN MagLess(IntMinMag(data_size), r.mag)
    ELSE MagLess(IntMaxMag(data_size), r.mag)

(* ------------------------------------------------------------------ *)
(* Schemas: the caller's read-only tables, one node per identifier.    *)
(* ------------------------------------------------------------------ *)

ScalarTypes == {"INT", "UINT", "BOOL", "ENUM", "STRING"}

Node(type, ptr, data_size) ==
    [ type |-> type, ptr |-> ptr, data_size |-> data_size, fields |-> <<>>,
      elem |-> "", count_offset |-> 0, count_size |-> 0 ]

Field(key, data_offset, value) ==
    [ key |-> key, data_offset |-> data_offset, value |-> value ]

MappingNode(ptr, data_size, fields) ==
    [ Node("MAPPING", ptr, data_size) EXCEPT !.fields = fields ]

SequenceNode(type, ptr, data_size, elem, count_offset, count_size) ==
    [ Node(type, ptr, data_size) EXCEPT
        !.elem = elem, !.count_offset = count_offset,
        !.count_size = count_size ]

\* The schemas a caller may pass.  TInt is not a mapping.  TNum and TWide
\* hold an INT of each width; TNum lists the key "a" twice.  TPtr holds the owning
\* pointers: a mapping, a sequence of INT2 and an INT.  TSeq holds the
\* sequences stored inline.  TMisc holds the kinds without a decoder.
\* TRec nests in itself through an owning pointer.  TEls holds an owned
\* sequence whose elements are owning pointers to an INT.  TDeep nests
\* without end, through an owned mapping and through an owned sequence of
\* mappings; it is the schema of the loads that fill the stack.
SchemaNode(id) ==
    CASE id = "TInt" -> Node("INT", FALSE, 4)
      [] id = "I1" -> Node("INT", FALSE, 1)
      [] id = "I2" -> Node("INT", FALSE, 2)
      [] id = "I4" -> Node("INT", FALSE, 4)
      [] id = "I8" -> Node("INT", FALSE, 8)
      [] id = "PI4" -> Node("INT", TRUE, 4)
      [] id = "TNum" ->
            MappingNode(FALSE, 4,
                << Field(<<"a">>, 0, "I1"), Field(<<"b">>, 2, "I2"),
                   Field(<<"a">>, 2, "I2") >>)
      [] id = "TWide" ->
            MappingNode(FALSE, 12,
                << Field(<<"c">>, 0, "I4"), Field(<<"d">>, 4, "I8") >>)
      [] id = "Inner" -> MappingNode(TRUE, 4, << Field(<<"x">>, 0, "I4") >>)
      [] id = "PSeq" -> SequenceNode("SEQUENCE", TRUE, 2, "I2", 16, 4)
      [] id = "TPtr" ->
            MappingNode(FALSE, 32,
                << Field(<<"m">>, 0, "Inner"), Field(<<"s">>, 8, "PSeq"),
                   Field(<<"p">>, 24, "PI4") >>)
      [] id = "ISeq" -> SequenceNode("SEQUENCE", FALSE, 4, "I4", 4, 1)
      [] id = "FSeq" -> SequenceNode("SEQUENCE_FIXED", FALSE, 1, "I1", 7, 1)
      [] id = "TSeq" ->
            MappingNode(FALSE, 8,
                << Field(<<"q">>, 0, "ISeq"), Field(<<"f">>, 5, "FSeq") >>)
      [] id = "Flags" -> Node("FLAGS", FALSE, 4)
      [] id = "Ignore" -> Node("IGNORE", FALSE, 0)
      [] id = "U4" -> Node("UINT", FALSE, 4)
      [] id = "Bogus" -> Node("BOGUS", FALSE, 4)
      [] id = "TMisc" ->
            MappingNode(FALSE, 8,
                << Field(<<"g">>, 0, "Flags"), Field(<<"i">>, 0, "Ignore"),
                   Field(<<"u">>, 4, "U4"), Field(<<"x">>, 4, "Bogus") >>)
      [] id = "TRec" -> MappingNode(TRUE, 8, << Field(<<"n">>, 0, "TRec") >>)
      [] id = "PESeq" -> SequenceNode("SEQUENCE", TRUE, 8, "PI4", 8, 1)
      [] id = "TEls" -> MappingNode(FALSE, 16, << Field(<<"e">>, 0, "PESeq") >>)
      [] id = "DSeq" -> SequenceNode("SEQUENCE", TRUE, 24, "TDeep", 16, 1)
      [] id = "PDeep" ->
            MappingNode(TRUE, 24,
                << Field(<<"n">>, 0, "PDeep"), Field(<<"l">>, 8, "DSeq") >>)
      [] id = "TDeep" ->
            MappingNode(FALSE, 24,
                << Field(<<"n">>, 0, "PDeep"), Field(<<"l">>, 8, "DSeq") >>)

TopSchemas ==
    {"TInt", "TNum", "TWide", "TPtr", "TSeq", "TMisc", "TRec", "TEls"}

(* ------------------------------------------------------------------ *)
(* Memory.                                                             *)
(* ------------------------------------------------------------------ *)

\* A byte that no one has written (the tail realloc adds).
Uninit == -1

NullAddr == [blk |-> 0, off |-> 0]
Addr(blk, off) == [blk |-> blk, off |-> off]
AddrPlus(a, n) == [a EXCEPT !.off = a.off + n]

\* The k-th byte (k in 0..7) of the stored address of block blk.
PtrCell(blk, k) == 256 + blk * PtrSize + k
PtrCells(blk) ==
    IF blk = 0 THEN Zero8 ELSE [i \in 1..PtrSize |-> PtrCell(blk, i - 1)]

Zeros(n) == [i \in 1..n |-> 0]

Valid(heap, a, n) ==
    /\ a.blk \in 1..Len(heap)
    /\ heap[a.blk].live
    /\ a.off >= 0
    /\ a.off + n <= Len(heap[a.blk].cells)

\* The world a handler works on: the heap, the load context and errno,
\* with the choices the environment makes for this handler (which of its
\* allocation calls fail, whether a growing block moves).  fault records
\* a store outside a live block, or a failed assertion.
Fault(w, what) == IF w.fault = "none" THEN [w EXCEPT !.fault = what] ELSE w

\* Store the cells at address a.
Store(w, a, cells) ==
    IF w.fault # "none" THEN w
    ELSE IF ~Valid(w.heap, a, Len(cells)) THEN Fault(w, "ub")
    ELSE [w EXCEPT !.heap[a.blk].cells =
            SubSeq(@, 1, a.off) \o cells
                \o SubSeq(@, a.off + Len(cells) + 1, Len(@))]

\* The cells of a block cut or padded to n cells; the padding is Uninit.
Resize(cells, n) ==
    IF n <= Len(cells) THEN SubSeq(cells, 1, n)
    ELSE cells \o [i \in 1..(n - Len(cells)) |-> Uninit]

\* realloc(ptr, size) with ptr the base of block blk (0: NULL).  Result:
\* <<world, block>>, block 0 on failure.  A failure leaves the old block
\* as it is.
realloc(w, blk, size) ==
    LET w1 == [w EXCEPT !.k = @ + 1]
    IN  IF w.fault # "none" THEN <<w, 0>>
        ELSE IF blk # 0 /\ ~Valid(w.heap, Addr(blk, 0), 0)
        THEN <<Fault(w1, "ub"), 0>>
        ELSE IF w1.k \in w.fails
        THEN <<w1, 0>>
        ELSE IF blk # 0 /\ ~w.moves
        THEN <<[w1 EXCEPT !.heap[blk].cells = Resize(@, size)], blk>>
        ELSE LET old == IF blk = 0 THEN <<>> ELSE w.heap[blk].cells
                 h1 == Append(w.heap,
                              [live |-> TRUE, cells |-> Resize(old, size)])
                 h2 == IF blk = 0 THEN h1
                       ELSE [h1 EXCEPT ![blk] =
                                [live |-> FALSE, cells |-> <<>>]]
             IN  <<[w1 EXCEPT !.heap = h2, !.allocs = @ + 1], Len(h1)>>

\* memset(block + off, 0, n).
memset0(w, blk, off, n) == Store(w, Addr(blk, off), Zeros(n))

\* free(ptr).
free(w, blk) ==
    IF w.fault # "none" \/ blk = 0 THEN w
    ELSE IF ~Valid(w.heap, Addr(blk, 0), 0) THEN Fault(w, "ub")
    ELSE [w EXCEPT !.heap[blk] = [live |-> FALSE, cells |-> <<>>]]

\* cyaml_data_write(value, entry_size, data_tgt): the entry_size low-order
\* bytes of the value, in host (little-endian) order.  Result: <<world,
\* err>>.
cyaml_data_write(w, bytes, entry_size, a) ==
    IF entry_size = 0 \/ entry_size > 8
    THEN <<w, "INVALID_DATA_SIZE">>
    ELSE <<Store(w, a, SubSeq(bytes, 1, entry_size)), "OK">>

(* ------------------------------------------------------------------ *)
(* The evaluation stack.                                               *)
(* ------------------------------------------------------------------ *)

\* ctx->state: a pointer into the stack buffer, or NULL.  base names the
\* buffer the pointer was taken from, idx the frame it designates.
NullCur == [base |-> 0, idx |-> 0]
Cur(base, idx) == [base |-> base, idx |-> idx]

\* A frame as the initialiser of cyaml__stack_push leaves it.
NewFrame(state, schema, data) ==
    [ state |-> state, schema |-> schema, data |-> data,
      m_schema |-> "", m_state |-> "KEY", schema_idx |-> 0,
      seq_data |-> NullAddr, count_data |-> NullAddr, count |-> 0,
      count_size |-> 0 ]

stack_idx(w) == Len(w.stack)

\* Whether a frame pointer designates a frame of the current buffer.
CurOK(w, c) ==
    c # NullCur /\ c.base = w.stack_base /\ c.idx + 1 \in 1..Len(w.stack)

\* *c, for a frame pointer c that is valid (else the frame read is junk).
Deref(w, c) ==
    IF CurOK(w, c) THEN w.stack[c.idx + 1]
    ELSE NewFrame("JUNK", "", NullAddr)

\* A read or a write through the frame pointer c; through a pointer into
\* a buffer that was released it is undefined (the fault "stale").
Touch(w, c) == IF CurOK(w, c) THEN w ELSE Fault(w, "stale")

SetFrame(w, c, f) ==
    IF w.fault # "none" THEN w
    ELSE IF ~CurOK(w, c) THEN Fault(w, "stale")
    ELSE [w EXCEPT !.stack[c.idx + 1] = f]

cyaml__stack_ensure(w) ==
    IF stack_idx(w) < w.stack_max THEN <<w, "OK">>
    ELSE IF w.k + 1 \in w.fails THEN <<[w EXCEPT !.k = @ + 1], "OOM">>
    ELSE << [w EXCEPT
                !.k = @ + 1,
                !.stack_max = @ + StackChunk,
                !.stack_base = IF w.stack_max = 0 \/ w.moves THEN @ + 1 ELSE @,
                !.cur = Cur(IF w.stack_max = 0 \/ w.moves
                            THEN w.stack_base + 1 ELSE w.stack_base,
                            stack_idx(w) - 1)],
             "OK" >>

\* ctx->stack[ctx->stack_idx] = s; ctx->state = ctx->stack + ctx->stack_idx;
\* ctx->stack_idx++.
StoreFrame(w, s) ==
    [w EXCEPT !.stack = Append(@, s),
              !.cur = Cur(w.stack_base, stack_idx(w))]

\* cyaml__stack_push once the stack has room, in world w.
InitFrame(w, s, node) ==
    IF s.state = "IN_MAPPING"
    THEN IF node.type # "MAPPING" THEN <<Fault(w, "assert"), "OK">>
         ELSE <<StoreFrame(w, [s EXCEPT !.m_schema = s.schema,
                                        !.m_state = "KEY"]), "OK">>
    ELSE IF s.state = "IN_SEQUENCE"
    THEN IF node.type \in {"SEQUENCE", "SEQUENCE_FIXED"}
         THEN <<StoreFrame(Touch(w, w.cur),
                    [s EXCEPT
                        !.count_data =
                            AddrPlus(Deref(w, w.cur).data, node.count_offset),
                        !.count_size = node.count_size]), "OK">>
         ELSE <<w, "INTERNAL_ERROR">>
    ELSE <<StoreFrame(w, s), "OK">>

cyaml__stack_push(w, state, schema, data) ==
    Bind(cyaml__stack_ensure(w), LAMBDA e :
        IF e[2] # "OK" THEN e
        ELSE InitFrame(e[1], NewFrame(state, schema, data),
                       SchemaNode(schema)))

cyaml__stack_pop(w) ==
    IF stack_idx(w) = 0 THEN <<w, "INTERNAL_ERROR">>
    ELSE << [w EXCEPT
                !.stack = SubSeq(@, 1, Len(@) - 1),
                !.cur = IF stack_idx(w) - 1 = 0 THEN NullCur
                        ELSE Cur(w.stack_base, stack_idx(w) - 2)],
            "OK" >>

cyaml_in_sequence(w) ==
    w.cur # NullCur /\ Deref(w, w.cur).state = "IN_SEQUENCE"

(* ------------------------------------------------------------------ *)
(* The placement engine, the INT decoder and the value handler.        *)
(* ------------------------------------------------------------------ *)

\* The end of cyaml__data_handle_pointer: the block blk is the value's
\* allocation; the sequence frame learns it and the pointer is stored at
\* value_data.  Result: <<world, err, value_data>>.
LinkAllocation(w, state, inseq, blk, value_data) ==
    Bind(IF inseq
         THEN SetFrame(w, state,
                       [Deref(w, state) EXCEPT !.seq_data = Addr(blk, 0)])
         ELSE w,
         LAMBDA w2 :
    Bind(cyaml_data_write(w2, PtrCells(blk), PtrSize, value_data),
         LAMBDA wr :
             IF wr[2] # "OK" THEN <<wr[1], wr[2], value_data>>
             ELSE <<wr[1], "OK", Addr(blk, 0)>>))

\* The allocation of cyaml__data_handle_pointer: delta bytes more for the
\* block old (0: none), zeroed from offset on.
GrowAllocation(w, state, inseq, old, offset, delta, value_data) ==
    Bind(realloc(w, old, offset + delta), LAMBDA r :
        IF r[1].fault # "none" THEN <<r[1], "OK", value_data>>
        ELSE IF r[2] = 0 THEN <<r[1], "OOM", value_data>>
        ELSE LinkAllocation(memset0(r[1], r[2], offset, delta),
                            state, inseq, r[2], value_data))

\* Result: <<world, err, value_data>>.  A STRING takes its size from the
\* scalar of the event; an event of another kind carries none to measure.
cyaml__data_handle_pointer(w, schema, event, value_data) ==
    Bind(SchemaNode(schema), LAMBDA node :
    Bind(cyaml_in_sequence(w), LAMBDA inseq :
    Bind(Deref(w, w.cur), LAMBDA frame :
        IF ~node.ptr THEN <<w, "OK", value_data>>
        ELSE IF node.type = "STRING" /\ event.kind # "SCALAR"
        THEN <<Fault(w, "ub"), "OK", value_data>>
        ELSE GrowAllocation(
                 w, w.cur, inseq,
                 IF inseq THEN frame.seq_data.blk ELSE 0,
                 IF inseq THEN node.data_size * frame.count ELSE 0,
                 IF node.type = "STRING" THEN Len(event.text) + 1
                 ELSE node.data_size,
                 value_data))))

\* The checks of cyaml__read_int on the conversion r, with errno as the
\* conversion left it, and the store.
CheckInt(w, r, data_size, data) ==
    IF ~r.consumed \/ w.errno = ERANGE \/ IntOutOfRange(r, data_size)
    THEN <<w, "INVALID_VALUE">>
    ELSE cyaml_data_write(w, TwosComplement(r.neg, r.mag), data_size, data)

\* Result: <<world, err>>.
cyaml__read_int(w, schema, value, data) ==
    Bind(strtoll(value), LAMBDA r :
        CheckInt(IF r.range THEN [w EXCEPT !.errno = ERANGE] ELSE w,
                 r, SchemaNode(schema).data_size, data))

\* The decoder table holds cyaml__read_int for INT and nothing else.
cyaml__read_scalar_value(w, schema, data, event) ==
    IF SchemaNode(schema).type = "INT"
    THEN cyaml__read_int(w, schema, event.text, data)
    ELSE <<Fault(w, "assert"), "OK">>

\* The switch of cyaml__read_value, with the value placed at data.
ReadPlaced(w, schema, type, data, event) ==
    IF w.fault # "none" THEN <<w, "OK">>
    ELSE CASE type \in ScalarTypes ->
                IF event.kind # "SCALAR" THEN <<w, "INVALID_VALUE">>
                ELSE cyaml__read_scalar_value(w, schema, data, event)
           [] type = "FLAGS" -> <<w, "OK">>
           [] type = "MAPPING" ->
                IF event.kind # "MAPPING_START" THEN <<w, "INVALID_VALUE">>
                ELSE cyaml__stack_push(w, "IN_MAPPING", schema, data)
           [] type \in {"SEQUENCE", "SEQUENCE_FIXED"} ->
                IF event.kind # "SEQ_START" THEN <<w, "INVALID_VALUE">>
                ELSE cyaml__stack_push(w, "IN_SEQUENCE", schema, data)
           [] type = "IGNORE" -> <<w, "OK">>
           [] OTHER -> <<w, "BAD_TYPE_IN_SCHEMA">>

\* Result: <<world, err>>.  The result of the placement is not looked at.
cyaml__read_value(w, schema, data, event) ==
    Bind(SchemaNode(schema).type, LAMBDA type :
        IF type \notin {"SEQUENCE", "SEQUENCE_FIXED"}
        THEN Bind(cyaml__data_handle_pointer(w, schema, event, data),
                  LAMBDA p : ReadPlaced(p[1], schema, type, p[3], event))
        ELSE ReadPlaced(w, schema, type, data, event))

\* cyaml__new_sequence_entry after the placement: the count, its store in
\* the parent and the value.  f is the sequence frame, base the placed
\* address.
AppendEntry(w, state, f, node, base, event) ==
    Bind(SetFrame(w, state, [f EXCEPT !.count = @ + 1]), LAMBDA w2 :
    Bind(IF node.type # "SEQUENCE_FIXED"
         THEN cyaml_data_write(w2, IntToBytes(f.count + 1), f.count_size,
                               f.count_data)
         ELSE <<w2, "OK">>,
         LAMBDA cw :
             IF cw[2] # "OK" \/ cw[1].fault # "none" THEN cw
             ELSE cyaml__read_value(
                      cw[1], node.elem,
                      AddrPlus(base, node.data_size * f.count), event)))

\* Result: <<world, err>>.
cyaml__new_sequence_entry(w, event) ==
    Bind(Deref(w, w.cur), LAMBDA frame :
    Bind(cyaml__data_handle_pointer(w, frame.schema, event, frame.data),
         LAMBDA p :
             IF p[2] # "OK" \/ p[1].fault # "none" THEN <<p[1], p[2]>>
             ELSE AppendEntry(p[1], w.cur, Deref(p[1], w.cur),
                              SchemaNode(frame.schema), p[3], event)))

(* ------------------------------------------------------------------ *)
(* The event pump and the handlers of the five states.                 *)
(* ------------------------------------------------------------------ *)

EventKinds ==
    { "NONE", "STREAM_START", "STREAM_END", "DOC_START", "DOC_END", "ALIAS",
      "SCALAR", "SEQ_START", "SEQ_END", "MAPPING_START", "MAPPING_END" }

\* What yaml_parser_parse hands back: ok is its result, deletes counts the
\* calls of yaml_event_delete on the event.
Event(ok, kind, text) ==
    [ok |-> ok, kind |-> kind, text |-> text, deletes |-> 0]

NoEvent == Event(FALSE, "NONE", <<>>)

\* yaml_event_delete releases what the event holds and zeroes it.
yaml_event_delete(w) ==
    [w EXCEPT !.event = [@ EXCEPT !.kind = "NONE", !.text = <<>>,
                                  !.deletes = @ + 1]]

\* A faulty pump that looks at the mask before it looks for an alias.
PumpMaskFirst(w, mask, ev) ==
    LET w1 == [w EXCEPT !.event = ev, !.nevents = @ + 1]
    IN  IF ~ev.ok THEN <<[w EXCEPT !.event = ev], "LIBYAML_PARSER">>
        ELSE IF ev.kind \notin mask
        THEN <<yaml_event_delete(w1), "UNEXPECTED_EVENT">>
        ELSE IF ev.kind = "ALIAS" THEN <<yaml_event_delete(w1), "ALIAS">>
        ELSE <<w1, "OK">>

\* Result: <<world, err>>; the event pulled is w.event.
cyaml_get_next_event(w, mask, ev) ==
    LET w1 == [w EXCEPT !.event = ev, !.nevents = @ + 1]
    IN  IF ~ev.ok THEN <<[w EXCEPT !.event = ev], "LIBYAML_PARSER">>
        ELSE IF ev.kind = "ALIAS" THEN <<yaml_event_delete(w1), "ALIAS">>
        ELSE IF ev.kind \notin mask
        THEN <<yaml_event_delete(w1), "UNEXPECTED_EVENT">>
        ELSE <<w1, "OK">>

\* A faulty scan that keeps the last field whose key is `key`.
RECURSIVE ScanLast(_, _, _)
ScanLast(fields, key, index) ==
    IF index >= Len(fields) THEN CYAML_SCHEMA_IDX_NONE
    ELSE Bind(ScanLast(fields, key, index + 1), LAMBDA later :
             IF later # CYAML_SCHEMA_IDX_NONE THEN later
             ELSE IF fields[index + 1].key = key THEN index
             ELSE CYAML_SCHEMA_IDX_NONE)

\* The index of the first field whose key is `key`, counted from 0.
RECURSIVE ScanFields(_, _, _)
ScanFields(fields, key, index) ==
    IF index >= Len(fields) THEN CYAML_SCHEMA_IDX_NONE
    ELSE IF fields[index + 1].key = key THEN index
    ELSE ScanFields(fields, key, index + 1)

cyaml__get_entry_from_mapping_schema(fields, key) ==
    ScanFields(fields, key, 0)

\* A faulty epilogue that releases the event after a success only.
OutOnSuccess(r) == IF r[2] = "OK" THEN <<yaml_event_delete(r[1]), r[2]>> ELSE r

\* A handler's epilogue: out: yaml_event_delete(&event); return err.
Out(r) == <<yaml_event_delete(r[1]), r[2]>>

MaskStart == {"STREAM_START"}
MaskStream == {"DOC_START", "STREAM_END"}
MaskDoc == {"MAPPING_START", "DOC_END"}
MaskKey == {"SCALAR", "MAPPING_END"}
MaskValue == {"SCALAR", "SEQ_START", "MAPPING_START"}
MaskSequence == {"MAPPING_START", "SEQ_START", "SEQ_END", "SCALAR"}

\* ctx->state->schema and ctx->state->data pushed for the state `state`.
PushSame(w, state) ==
    cyaml__stack_push(w, state, Deref(w, w.cur).schema, Deref(w, w.cur).data)

cyaml__read_start(w, ev) ==
    Bind(cyaml_get_next_event(w, MaskStart, ev), LAMBDA g :
        IF g[2] # "OK" THEN g
        ELSE Out(PushSame(g[1], "IN_STREAM")))

cyaml__read_stream(w, ev) ==
    Bind(cyaml_get_next_event(w, MaskStream, ev), LAMBDA g :
        IF g[2] # "OK" THEN g
        ELSE IF ev.kind = "DOC_START" THEN Out(PushSame(g[1], "IN_DOC"))
        ELSE Out(cyaml__stack_pop(g[1])))

cyaml__read_doc(w, ev) ==
    Bind(cyaml_get_next_event(w, MaskDoc, ev), LAMBDA g :
        IF g[2] # "OK" THEN g
        ELSE IF ev.kind = "MAPPING_START"
        THEN Out(PushSame(g[1], "IN_MAPPING"))
        ELSE Out(cyaml__stack_pop(g[1])))

\* The SCALAR case of cyaml__read_mapping_key: the index is stored in the
\* frame whether a field matched or not.
LookupKey(w, top, idx) ==
    IF idx = CYAML_SCHEMA_IDX_NONE
    THEN <<SetFrame(w, w.cur, [top EXCEPT !.schema_idx = idx]), "INVALID_KEY">>
    ELSE <<SetFrame(w, w.cur, [top EXCEPT !.schema_idx = idx,
                                          !.m_state = "VALUE"]), "OK">>

cyaml__read_mapping_key(w, ev) ==
    Bind(cyaml_get_next_event(w, MaskKey, ev), LAMBDA g :
        IF g[2] # "OK" THEN g
        ELSE IF ev.kind = "SCALAR"
        THEN Out(LookupKey(g[1], Deref(g[1], g[1].cur),
                     cyaml__get_entry_from_mapping_schema(
                         SchemaNode(Deref(g[1], g[1].cur).m_schema).fields,
                         ev.text)))
        ELSE Out(cyaml__stack_pop(g[1])))

\* A faulty value handler of the mapping that leaves the sub-state as it
\* is.
ReadFieldValueNoFlip(w, state, entry, data, ev) ==
    cyaml__read_value(Touch(w, state), entry.value, data, ev)

\* A faulty value handler of the mapping that reads the value first and
\* sets the sub-state afterwards, through the frame pointer taken on
\* entry.
ReadFieldValueFlipAfter(w, state, entry, data, ev) ==
    Bind(cyaml__read_value(w, entry.value, data, ev), LAMBDA r :
        << SetFrame(r[1], state, [Deref(r[1], state) EXCEPT !.m_state = "KEY"]),
           r[2] >>)

\* cyaml__read_mapping_value once the event is there: the sub-state goes
\* back to KEY through the frame pointer taken on entry, then the value
\* is read.
ReadFieldValue(w, state, entry, data, ev) ==
    cyaml__read_value(
        SetFrame(w, state, [Deref(w, state) EXCEPT !.m_state = "KEY"]),
        entry.value, data, ev)

cyaml__read_mapping_value(w, ev) ==
    Bind(Deref(w, w.cur), LAMBDA frame :
    Bind(SchemaNode(frame.m_schema).fields[frame.schema_idx + 1],
         LAMBDA entry :
    Bind(cyaml_get_next_event(w, MaskValue, ev), LAMBDA g :
        IF g[2] # "OK" THEN g
        ELSE Out(ReadFieldValue(g[1], w.cur, entry,
                                AddrPlus(frame.data, entry.data_offset),
                                ev)))))

cyaml__read_mapping(w, ev) ==
    Bind(Deref(w, w.cur).m_state, LAMBDA sub :
        CASE sub = "KEY" -> cyaml__read_mapping_key(w, ev)
          [] sub = "VALUE" -> cyaml__read_mapping_value(w, ev)
          [] OTHER -> <<w, "INTERNAL_ERROR">>)

cyaml__read_sequence(w, ev) ==
    Bind(cyaml_get_next_event(w, MaskSequence, ev), LAMBDA g :
        IF g[2] # "OK" THEN g
        ELSE IF ev.kind \in {"SCALAR", "SEQ_START", "MAPPING_START"}
        THEN Out(cyaml__new_sequence_entry(g[1], ev))
        ELSE IF ev.kind = "SEQ_END" THEN Out(cyaml__stack_pop(g[1]))
        ELSE Out(<<g[1], "INTERNAL_ERROR">>))

\* fn[ctx.state->state](&ctx).
Dispatch(w, ev) ==
    Bind(Deref(w, w.cur).state, LAMBDA st :
        CASE st = "START" -> cyaml__read_start(w, ev)
          [] st = "IN_STREAM" -> cyaml__read_stream(w, ev)
          [] st = "IN_DOC" -> cyaml__read_doc(w, ev)
          [] st = "IN_MAPPING" -> cyaml__read_mapping(w, ev)
          [] st = "IN_SEQUENCE" -> cyaml__read_sequence(w, ev))

(* ------------------------------------------------------------------ *)
(* The companion free routine (free.c), from its description: it walks *)
(* the schema from the root and releases every owning allocation that  *)
(* a pointer slot of the tree holds, then the root.                    *)
(* ------------------------------------------------------------------ *)

\* The block whose address the eight cells at a hold: 0 for a null
\* pointer, -1 for cells that hold no stored address.
ReadPtr(heap, a) ==
    IF ~Valid(heap, a, PtrSize) THEN -1
    ELSE LET c == SubSeq(heap[a.blk].cells, a.off + 1, a.off + PtrSize)
         IN  IF c = Zero8 THEN 0
             ELSE IF c[1] >= 256 /\ c = PtrCells((c[1] - 256) \div PtrSize)
             THEN (c[1] - 256) \div PtrSize
             ELSE -1

\* The unsigned value of the n cells at a; -1 when they hold no number.
RECURSIVE CellsValue(_, _)
CellsValue(c, i) ==
    IF i > Len(c) THEN 0
    ELSE IF c[i] \notin 0..255 THEN -1
    ELSE LET rest == CellsValue(c, i + 1)
         IN  IF rest < 0 \/ rest >= 65536 THEN -1 ELSE c[i] + 256 * rest

ReadCount(heap, a, n) ==
    IF ~Valid(heap, a, n) THEN -1
    ELSE CellsValue(SubSeq(heap[a.blk].cells, a.off + 1, a.off + n), 1)

RECURSIVE cyaml__free_value(_, _, _, _)
RECURSIVE cyaml__free_mapping(_, _, _, _)
RECURSIVE cyaml__free_sequence(_, _, _, _, _)

\* The value at data, of the schema node, and then its own block blk
\* (0: the value is stored inline).
FreeAt(w, node, data, blk, count) ==
    free(CASE node.type = "MAPPING" ->
                 cyaml__free_mapping(w, node.fields, 1, data)
           [] node.type \in {"SEQUENCE", "SEQUENCE_FIXED"} ->
                 cyaml__free_sequence(w, node, data, 0, count)
           [] OTHER -> w,
         blk)

cyaml__free_value(w, schema, slot, count) ==
    CASE w.fault # "none" -> w
      [] ~SchemaNode(schema).ptr ->
            FreeAt(w, SchemaNode(schema), slot, 0, count)
      [] ReadPtr(w.heap, slot) = 0 -> w
      [] ReadPtr(w.heap, slot) < 0 -> Fault(w, "ub")
      [] OTHER ->
            FreeAt(w, SchemaNode(schema), Addr(ReadPtr(w.heap, slot), 0),
                   ReadPtr(w.heap, slot), count)

\* The count of a SEQUENCE field is read from the parent.
FreeField(w, f, node, data) ==
    CASE node.type # "SEQUENCE" ->
            cyaml__free_value(w, f.value, AddrPlus(data, f.data_offset), 0)
      [] ReadCount(w.heap, AddrPlus(data, node.count_offset),
                   node.count_size) < 0 -> Fault(w, "ub")
      [] OTHER ->
            cyaml__free_value(w, f.value, AddrPlus(data, f.data_offset),
                ReadCount(w.heap, AddrPlus(data, node.count_offset),
                          node.count_size))

cyaml__free_mapping(w, fields, i, data) ==
    IF i > Len(fields) \/ w.fault # "none" THEN w
    ELSE cyaml__free_mapping(
             FreeField(w, fields[i], SchemaNode(fields[i].value), data),
             fields, i + 1, data)

cyaml__free_sequence(w, node, data, i, count) ==
    IF i >= count \/ w.fault # "none" THEN w
    ELSE cyaml__free_sequence(
             cyaml__free_value(w, node.elem,
                               AddrPlus(data, node.data_size * i), 0),
             node, data, i + 1, count)

\* cyaml_free(config, schema, data): the tree under the root, then the
\* root allocation.
cyaml_free(w, schema, blk) ==
    free(cyaml__free_mapping(w, SchemaNode(schema).fields, 1, Addr(blk, 0)),
         blk)

(* ------------------------------------------------------------------ *)
(* The program state.                                                  *)
(* ------------------------------------------------------------------ *)

VARIABLES
    pc,         \* where the process is: idle, loop, fin, out, ret, ub, abort
    args,       \* the arguments of the entry point called
    res,        \* the file and the parser of the entry point
    heap,       \* the blocks calloc and realloc returned
    allocs,     \* blocks allocated since the entry point was called
    root,       \* cyaml__load's data: the root block, 0 before calloc
    stack,      \* ctx.stack[0 .. stack_idx - 1]
    stack_max,  \* ctx.stack_max
    stack_base, \* which buffer ctx.stack is
    cur,        \* ctx.state
    err,        \* cyaml__load's err, then the entry point's result
    errno,      \* the C library's errno
    data_out,   \* *data_out and the number of stores to it
    event,      \* the handler's event, as the last pull left it
    nevents,    \* events the producer has delivered to this load
    frees,      \* the calls of cyaml_free: stack_idx at each call
    open        \* constructs the events handled with OK opened and did not close

vars == << pc, args, res, heap, allocs, root, stack, stack_max, stack_base,
           cur, err, errno, data_out, event, nevents, frees, open >>

\* An argument is a null pointer (FALSE, "NULL") or a valid one.
ArgSets ==
    [ config : BOOLEAN, schema : TopSchemas \cup {"NULL"},
      data_out : BOOLEAN ]

\* The scalars the producer may deliver for a schema: its keys, a text
\* that is no key, and values for its fields.
TextsFor(schema) ==
    CASE schema = "TNum" ->
            NarrowTexts \cup OtherTexts \cup {<<"a">>, <<"b">>}
      [] schema = "TWide" ->
            WideTexts \cup {<<"c">>, <<"d">>, <<"7">>}
      [] schema = "TPtr" ->
            { <<"m">>, <<"s">>, <<"p">>, <<"x">>, <<"z">>, <<"7">>,
              <<"3", "2", "7", "6", "8">> }
      [] schema = "TSeq" ->
            { <<"q">>, <<"f">>, <<"z">>, <<"7">>, <<"1", "2", "8">> }
      [] schema = "TMisc" ->
            { <<"g">>, <<"i">>, <<"u">>, <<"x">>, <<"z">>, <<"7">> }
      [] schema = "TEls" -> { <<"e">>, <<"7">> }
      [] schema = "TDeep" -> { <<"n">>, <<"l">>, <<"z">> }
      [] OTHER -> { <<"n">>, <<"z">> }

\* What the next yaml_parser_parse may return: a failure, or (until the
\* input is used up) an event of any kind.
EventChoices ==
    {NoEvent} \cup
    IF nevents >= MaxEvents THEN {}
    ELSE { Event(TRUE, k, <<>>) : k \in EventKinds \ {"SCALAR"} }
         \cup { Event(TRUE, "SCALAR", t) : t \in TextsFor(args.schema) }

\* The world of a handler about to run, with the environment's choices.
World(fails, moves) ==
    [ heap |-> heap, allocs |-> allocs, stack |-> stack,
      stack_max |-> stack_max, stack_base |-> stack_base, cur |-> cur,
      errno |-> errno, event |-> event, nevents |-> nevents,
      frees |-> frees, fault |-> "none", fails |-> fails, moves |-> moves, k |-> 0 ]

\* The variables a handler works on take the values of the world w.
Commit(w) ==
    /\ heap' = w.heap
    /\ allocs' = w.allocs
    /\ stack' = w.stack
    /\ stack_max' = w.stack_max
    /\ stack_base' = w.stack_base
    /\ cur' = w.cur
    /\ errno' = w.errno
    /\ event' = w.event
    /\ nevents' = w.nevents
    /\ frees' = w.frees

\* No allocation fails: the run that tells how many allocation calls a
\* handler makes.  One call of them may fail.
FailChoices(calls) == {{}} \cup {{j} : j \in 1..calls}

Init ==
    /\ pc = "idle"
    /\ args \in ArgSets
    /\ res = [file |-> "none", parser |-> "none"]
    /\ heap = <<>>
    /\ allocs = 0
    /\ root = 0
    /\ stack = <<>>
    /\ stack_max = 0
    /\ stack_base = 0
    /\ cur = NullCur
    /\ err = "OK"
    /\ errno = 0
    /\ data_out = [val |-> 0, writes |-> 0]
    /\ event = NoEvent
    /\ nevents = 0
    /\ frees = <<>>
    /\ open = 0

(* ------------------------------------------------------------------ *)
(* The entry points and the drive loop.                                *)
(* ------------------------------------------------------------------ *)

\* A faulty validation that looks at data_out before the top-level type.
ValidateDataFirst(a) ==
    IF ~a.config THEN "BAD_PARAM_NULL_CONFIG"
    ELSE IF a.schema = "NULL" THEN "BAD_PARAM_NULL_SCHEMA"
    ELSE IF ~a.data_out THEN "BAD_PARAM_NULL_DATA"
    ELSE IF SchemaNode(a.schema).type # "MAPPING" THEN "BAD_TOP_LEVEL_TYPE"
    ELSE "OK"

\* A faulty validation that does not look at the top-level type.
ValidateNoTopLevel(a) ==
    IF ~a.config THEN "BAD_PARAM_NULL_CONFIG"
    ELSE IF a.schema = "NULL" THEN "BAD_PARAM_NULL_SCHEMA"
    ELSE IF ~a.data_out THEN "BAD_PARAM_NULL_DATA"
    ELSE "OK"

cyaml__validate_load_params(a) ==
    IF ~a.config THEN "BAD_PARAM_NULL_CONFIG"
    ELSE IF a.schema = "NULL" THEN "BAD_PARAM_NULL_SCHEMA"
    ELSE IF SchemaNode(a.schema).type # "MAPPING" THEN "BAD_TOP_LEVEL_TYPE"
    ELSE IF ~a.data_out THEN "BAD_PARAM_NULL_DATA"
    ELSE "OK"

\* cyaml__load up to its loop: the root allocation and the START frame.
\* Result: <<world, err, root block, next pc>>; a failed calloc returns
\* at once, a failed push goes to out.
LoadStart(w, schema, blk) ==
    Bind(cyaml__stack_push(w, "START", schema, Addr(blk, 0)), LAMBDA p :
        IF p[2] # "OK" THEN <<p[1], p[2], blk, "out">>
        ELSE << SetFrame(p[1], p[1].cur,
                    [Deref(p[1], p[1].cur) EXCEPT !.data = Addr(blk, 0)]),
                "OK", blk, "loop" >>)

LoadPrologue(w, schema) ==
    Bind(realloc(w, 0, SchemaNode(schema).data_size), LAMBDA c :
        IF c[2] = 0 THEN <<c[1], "OOM", 0, "ret">>
        ELSE LoadStart(memset0(c[1], c[2], 0, SchemaNode(schema).data_size),
                       schema, c[2]))

\* cyaml__load is entered with the parser initialised.
EnterLoad(file) ==
    \E fails \in FailChoices(2) :
        \E r \in {LoadPrologue(World(fails, FALSE), args.schema)} :
            /\ Commit(r[1])
            /\ err' = r[2]
            /\ root' = r[3]
            /\ pc' = r[4]
            /\ res' = IF r[4] = "ret"
                      THEN [file |-> IF file THEN "closed" ELSE "none",
                            parser |-> "deleted"]
                      ELSE [file |-> IF file THEN "open" ELSE "none",
                            parser |-> "init"]
            /\ UNCHANGED <<args, data_out, open>>

\* An entry point returns `code` before it has entered cyaml__load.
ReturnEarly(code, file) ==
    /\ pc' = "ret"
    /\ err' = code
    /\ res' = [res EXCEPT !.file = file]
    /\ UNCHANGED << args, heap, allocs, root, stack, stack_max, stack_base,
                    cur, errno, data_out, event, nevents, frees, open >>

cyaml_load_file ==
    /\ pc = "idle"
    /\ LET v == cyaml__validate_load_params(args)
       IN  IF v # "OK" THEN ReturnEarly(v, "none")
           ELSE \E opened \in BOOLEAN, inited \in BOOLEAN :
                    IF ~opened THEN ReturnEarly("FILE_OPEN", "none")
                    ELSE IF ~inited
                    THEN ReturnEarly("LIBYAML_PARSER_INIT", "closed")
                    ELSE EnterLoad(TRUE)

cyaml_load_data ==
    /\ pc = "idle"
    /\ LET v == cyaml__validate_load_params(args)
       IN  IF v # "OK" THEN ReturnEarly(v, "none")
           ELSE \E inited \in BOOLEAN :
                    IF ~inited THEN ReturnEarly("LIBYAML_PARSER_INIT", "none")
                    ELSE EnterLoad(FALSE)

\* A faulty loop condition, ctx.state->state >= CYAML_STATE_START: the loop
\* goes on when the START frame is the top again.
AfterHandlerLoopsOn(w, e) ==
    IF w.fault \in {"ub", "stale"} THEN "ub"
    ELSE IF w.fault = "assert" THEN "abort"
    ELSE IF e # "OK" THEN "out"
    ELSE "loop"

\* Where the process is after a handler returned err in world w.
AfterHandler(w, e) ==
    IF w.fault \in {"ub", "stale"} THEN "ub"
    ELSE IF w.fault = "assert" THEN "abort"
    ELSE IF e # "OK" THEN "out"
    ELSE IF Deref(w, w.cur).state = "START" THEN "fin"
    ELSE "loop"

\* What an event the producer delivers does to the nesting of its stream.
Nesting(ev) ==
    IF ~ev.ok THEN 0
    ELSE IF ev.kind \in {"STREAM_START", "DOC_START", "MAPPING_START",
                         "SEQ_START"} THEN 1
    ELSE IF ev.kind \in {"STREAM_END", "DOC_END", "MAPPING_END", "SEQ_END"}
    THEN -1
    ELSE 0

\* The handler of the top frame's state pulls the event ev and handles it,
\* over the choices of the allocator; an allocator that is not `faulty`
\* neither fails nor moves a block.
HandleEvent(ev, faulty) ==
    \E calls \in {IF faulty THEN Dispatch(World({}, FALSE), ev)[1].k ELSE 0} :
        \E fails \in FailChoices(calls),
           moves \in (IF calls > 0 THEN BOOLEAN ELSE {FALSE}) :
            \E r \in {Dispatch(World(fails, moves), ev)} :
                /\ Commit(r[1])
                /\ err' = r[2]
                /\ pc' = AfterHandler(r[1], r[2])
                /\ open' = IF r[2] = "OK" THEN open + Nesting(ev) ELSE open

\* One iteration of the do-while loop: the handler of the top frame's state
\* pulls one event and handles it.
Handle ==
    /\ pc = "loop"
    /\ \E ev \in EventChoices : HandleEvent(ev, TRUE)
    /\ UNCHANGED <<args, res, root, data_out>>

\* After the loop: the pop of the START frame, the assertion and the
\* store to *data_out.
Finish ==
    /\ pc = "fin"
    /\ \E r \in {cyaml__stack_pop(World({}, FALSE))} :
           /\ Commit(r[1])
           /\ err' = r[2]
           /\ IF r[2] # "OK"
              THEN pc' = "out" /\ UNCHANGED data_out
              ELSE IF stack_idx(r[1]) # 0
              THEN pc' = "abort" /\ UNCHANGED data_out
              ELSE /\ pc' = "out"
                   /\ data_out' = [val |-> root, writes |-> data_out.writes + 1]
    /\ UNCHANGED <<args, res, root, open>>

\* A faulty unwinding that pops one frame only.
UnwindOnce(w) == IF stack_idx(w) > 0 THEN cyaml__stack_pop(w)[1] ELSE w

\* while (ctx.stack_idx > 0) cyaml__stack_pop(&ctx).
RECURSIVE Unwind(_)
Unwind(w) ==
    IF stack_idx(w) > 0 THEN Unwind(cyaml__stack_pop(w)[1]) ELSE w

\* A faulty label out that runs the free routine after a success as well.
CleanupAlwaysFree(w) ==
    [Unwind(cyaml_free(w, args.schema, root)) EXCEPT !.stack_base = 0]

\* A faulty label out that unwinds the stack before it runs the free
\* routine.
CleanupUnwindFirst(w) ==
    LET w1 == Unwind(w)
    IN  [ (IF err # "OK"
           THEN cyaml_free([w1 EXCEPT !.frees = Append(@, stack_idx(w1))],
                           args.schema, root)
           ELSE w1) EXCEPT !.stack_base = 0 ]

\* What the label out does to the world: the free routine if err is set,
\* the unwinding, free(ctx.stack).
CleanupWorld(w) ==
    LET w1 == IF err # "OK"
              THEN cyaml_free([w EXCEPT !.frees = Append(@, stack_idx(w))],
                              args.schema, root)
              ELSE w
    IN  [Unwind(w1) EXCEPT !.stack_base = 0]

\* The label out of cyaml__load: the free routine on the partial tree
\* after an error, the unwinding, free(ctx.stack); then the entry point
\* deletes its parser, closes its file and returns err.
Cleanup ==
    /\ pc = "out"
    /\ \E w2 \in {CleanupWorld(World({}, FALSE))} :
           /\ Commit(w2)
           /\ pc' = IF w2.fault = "none" THEN "ret" ELSE "ub"
    /\ res' = [file |-> IF res.file = "open" THEN "closed" ELSE res.file,
               parser |-> "deleted"]
    /\ UNCHANGED <<args, root, err, data_out, open>>

\* The process calls an entry point again: a new context, a new *data_out;
\* errno is the process's and stays.
NextCall ==
    /\ pc = "ret"
    /\ pc' = "idle"
    /\ args' \in ArgSets
    /\ res' = [file |-> "none", parser |-> "none"]
    /\ heap' = <<>>
    /\ allocs' = 0
    /\ root' = 0
    /\ stack' = <<>>
    /\ stack_max' = 0
    /\ stack_base' = 0
    /\ cur' = NullCur
    /\ err' = "OK"
    /\ data_out' = [val |-> 0, writes |-> 0]
    /\ event' = NoEvent
    /\ nevents' = 0
    /\ frees' = <<>>
    /\ open' = 0
    /\ UNCHANGED errno

Next ==
    \/ cyaml_load_file
    \/ cyaml_load_data
    \/ Handle
    \/ Finish
    \/ Cleanup
    \/ NextCall

Spec == Init /\ [][Next]_vars

(* ------------------------------------------------------------------ *)
(* Properties.                                                         *)
(* ------------------------------------------------------------------ *)

\* The top frame of the stack.
TopFrame ==
    IF stack = <<>> THEN NewFrame("NONE", "", NullAddr) ELSE stack[Len(stack)]

(* ------------------------------------------------------------------ *)
(* Loads that fill the stack: the producer delivers streams that nest  *)
(* as far as the first chunk of the stack goes and one frame further.  *)
(* ------------------------------------------------------------------ *)

\* The stack is within two frames of the end of its first chunk, or
\* beyond it.
NearChunkEnd == Len(stack) + 2 >= StackChunk

\* The event that goes one level down from the top frame: the start of
\* the next construct or the key of a nesting field.  The sequence field
\* is entered only near the end of the first chunk.
DescentEvents ==
    CASE TopFrame.state = "START" -> {Event(TRUE, "STREAM_START", <<>>)}
      [] TopFrame.state = "IN_STREAM" -> {Event(TRUE, "DOC_START", <<>>)}
      [] TopFrame.state = "IN_DOC" -> {Event(TRUE, "MAPPING_START", <<>>)}
      [] TopFrame.state = "IN_MAPPING" /\ TopFrame.m_state = "KEY" ->
            {Event(TRUE, "SCALAR", <<"n">>)}
            \cup (IF NearChunkEnd
                  THEN {Event(TRUE, "SCALAR", <<"l">>)} ELSE {})
      [] TopFrame.state = "IN_MAPPING" /\ TopFrame.m_state = "VALUE" ->
            { Event(TRUE, "MAPPING_START", <<>>),
              Event(TRUE, "SEQ_START", <<>>) }
      [] OTHER -> {Event(TRUE, "MAPPING_START", <<>>)}

\* The events that close a construct; the streams close one at the top
\* level and beyond the first chunk.
AscentEvents ==
    IF Len(stack) <= 4 \/ Len(stack) > StackChunk
    THEN { Event(TRUE, k, <<>>) :
              k \in {"MAPPING_END", "SEQ_END", "DOC_END", "STREAM_END"} }
    ELSE {}

DeepChoices ==
    {NoEvent} \cup
    IF nevents >= MaxDeepEvents THEN {}
    ELSE DescentEvents \cup AscentEvents

HandleDeep ==
    /\ pc = "loop"
    /\ \E ev \in DeepChoices : HandleEvent(ev, NearChunkEnd)
    /\ UNCHANGED <<args, res, root, data_out>>

\* The state after construction, the entry point to be called with valid
\* arguments and the schema TDeep.  The allocator fails or moves a block
\* only near the end of the first chunk of the stack.
InitDeep ==
    /\ pc = "idle"
    /\ args = [config |-> TRUE, schema |-> "TDeep", data_out |-> TRUE]
    /\ res = [file |-> "none", parser |-> "none"]
    /\ heap = <<>>
    /\ allocs = 0
    /\ root = 0
    /\ stack = <<>>
    /\ stack_max = 0
    /\ stack_base = 0
    /\ cur = NullCur
    /\ err = "OK"
    /\ errno = 0
    /\ data_out = [val |-> 0, writes |-> 0]
    /\ event = NoEvent
    /\ nevents = 0
    /\ frees = <<>>
    /\ open = 0

NextDeep ==
    \/ cyaml_load_file
    \/ cyaml_load_data
    \/ HandleDeep
    \/ Finish
    \/ Cleanup

DeepSpec == InitDeep /\ [][NextDeep]_vars

\* Every event the producer can hand to a handler.
AnyEvent ==
    {NoEvent}
    \cup { Event(TRUE, k, <<>>) : k \in EventKinds \ {"SCALAR"} }
    \cup { Event(TRUE, "SCALAR", t) : t \in TextsFor(args.schema) }

\* The results <<world, err>> the handler of the top frame can have on the
\* event ev, over the choices of the allocator.
Outcomes(ev) ==
    LET calls == Dispatch(World({}, FALSE), ev)[1].k
    IN  { Dispatch(World(fails, moves), ev) :
              fails \in FailChoices(calls),
              moves \in (IF calls > 0 THEN BOOLEAN ELSE {FALSE}) }

\* The top frame of a world.
TopOf(w) == w.stack[Len(w.stack)]

\* The n cells at address a.
CellsAt(h, a, n) == SubSeq(h[a.blk].cells, a.off + 1, a.off + n)

\* The field a mapping frame waiting for a value is about to fill: its
\* entry, its schema node and the address of its slot.
FieldEntry(f) == SchemaNode(f.m_schema).fields[f.schema_idx + 1]
FieldNode(f) == SchemaNode(FieldEntry(f).value)
FieldSlot(f) == AddrPlus(f.data, FieldEntry(f).data_offset)

ExpectsKey == pc = "loop" /\ TopFrame.state = "IN_MAPPING"
              /\ TopFrame.m_state = "KEY"
ExpectsValue == pc = "loop" /\ TopFrame.state = "IN_MAPPING"
                /\ TopFrame.m_state = "VALUE"

\* C1: whenever a load returns a non-OK code, every block allocated during
\* the load has been released: none is still live at the return.
C1_NoLeakOnError ==
    (pc = "ret" /\ err # "OK") => \A b \in 1..Len(heap) : ~heap[b].live

\* C2: when the load returns the stack is empty, after a success and after
\* a failure; after the loop the stack holds the START frame alone, so the
\* final pop succeeds and leaves stack_idx == 0 for the assertion.
C2_StackEmptyAtReturn ==
    /\ pc = "ret" => stack = <<>> /\ cur = NullCur
    /\ pc = "fin" =>
           /\ Len(stack) = 1
           /\ TopFrame.state = "START"
           /\ cyaml__stack_pop(World({}, FALSE))[2] = "OK"

\* A load that failed on a key after at least five events has returned.
C2_ReturnedFromDepth ==
    /\ pc = "ret"
    /\ err = "INVALID_KEY"
    /\ nevents >= 6
    /\ stack = <<>>

\* C3: *data_out is stored exactly once, with the live root allocation, if
\* the load returns OK; on every other return it was never stored.
C3_OutputOnlyOnSuccess ==
    /\ data_out.writes <= 1
    /\ pc = "ret" =>
           IF err = "OK"
           THEN /\ data_out = [val |-> root, writes |-> 1]
                /\ Valid(heap, Addr(root, 0), SchemaNode(args.schema).data_size)
           ELSE data_out = [val |-> 0, writes |-> 0]

\* A load has returned OK and handed the root over.
C3_Transferred ==
    /\ pc = "ret"
    /\ err = "OK"
    /\ data_out.writes = 1
    /\ data_out.val # 0

\* The parameter error the entry points are to report for the arguments a.
ParamError(a) ==
    CASE ~a.config -> "BAD_PARAM_NULL_CONFIG"
      [] a.config /\ a.schema = "NULL" -> "BAD_PARAM_NULL_SCHEMA"
      [] a.config /\ a.schema = "TInt" -> "BAD_TOP_LEVEL_TYPE"
      [] a.config /\ a.schema \notin {"NULL", "TInt"} /\ ~a.data_out ->
            "BAD_PARAM_NULL_DATA"
      [] OTHER -> "OK"

\* C4: a null config, else a null schema, else a top-level node that is no
\* MAPPING, else a null data_out is reported in this order, and then no
\* file is opened, no parser initialised, no event pulled, nothing
\* allocated.
C4_ParamsFirst ==
    (pc = "ret" /\ ParamError(args) # "OK") =>
        /\ err = ParamError(args)
        /\ res = [file |-> "none", parser |-> "none"]
        /\ nevents = 0
        /\ event = NoEvent
        /\ allocs = 0
        /\ heap = <<>>

\* A call with a top-level INT and a null data_out has returned.
C4_TopLevelBeforeData ==
    /\ pc = "ret"
    /\ args.config
    /\ args.schema = "TInt"
    /\ ~args.data_out
    /\ err = "BAD_TOP_LEVEL_TYPE"

\* C5 (for a SEQUENCE whose elements live in a block of their own): in a
\* sequence frame, after N values have been admitted, the frame's count
\* is N and the count field in the parent is N.
C5_CountFieldFollowsFrame ==
    pc = "loop" =>
        \A i \in 1..Len(stack) :
            ( /\ stack[i].state = "IN_SEQUENCE"
              /\ SchemaNode(stack[i].schema).type = "SEQUENCE"
              /\ SchemaNode(stack[i].schema).ptr )
            => ReadCount(heap, stack[i].count_data, stack[i].count_size)
                   = stack[i].count

\* The value a decimal text denotes: its sign and its magnitude.
RECURSIVE DecimalMag(_, _, _)
DecimalMag(t, i, mag) ==
    IF i > Len(t) THEN mag
    ELSE DecimalMag(t, i + 1, LimbMulAdd(mag, 10, DigitVal(t[i]), 1)[1])

Denoted(t) ==
    IF t[1] = "-" THEN [neg |-> TRUE, mag |-> DecimalMag(t, 2, Zero8)]
    ELSE [neg |-> FALSE, mag |-> DecimalMag(t, 1, Zero8)]

\* 2^(8N - 1), and -2^(8N-1) <= v <= 2^(8N-1) - 1.
HalfRange(N) == [i \in 1..8 |-> IF i = N THEN 128 ELSE 0]
InIntRange(v, N) ==
    IF v.neg THEN MagLeq(v.mag, HalfRange(N)) ELSE MagLess(v.mag, HalfRange(N))

DecimalTexts == BoundTexts \cup {<<"7">>}

\* C6: for an INT field of N bytes, a text that denotes a value within
\* [-2^(8N-1), 2^(8N-1) - 1] is accepted and the N low-order bytes of its
\* two's complement are at the target; a text that denotes a value past
\* either bound gives INVALID_VALUE and leaves the target as it was.
C6_IntRange ==
    ( /\ ExpectsValue
      /\ FieldNode(TopFrame).type = "INT"
      /\ ~FieldNode(TopFrame).ptr ) =>
            \A t \in DecimalTexts \cap TextsFor(args.schema) :
                \A r \in Outcomes(Event(TRUE, "SCALAR", t)) :
                    LET N == FieldNode(TopFrame).data_size
                        v == Denoted(t)
                        tgt == FieldSlot(TopFrame)
                    IN  IF InIntRange(v, N)
                        THEN /\ r[2] = "OK"
                             /\ CellsAt(r[1].heap, tgt, N)
                                    = SubSeq(TwosComplement(v.neg, v.mag), 1, N)
                        ELSE /\ r[2] = "INVALID_VALUE"
                             /\ r[1].heap = heap

\* The index of the first field whose key is `key`; -1 if there is none.
FirstMatch(fields, key) ==
    IF \E i \in 1..Len(fields) : fields[i].key = key
    THEN (CHOOSE i \in 1..Len(fields) :
              /\ fields[i].key = key
              /\ \A j \in 1..(i - 1) : fields[j].key # key) - 1
    ELSE -1

\* C7: in a mapping frame that expects a key, a SCALAR that is no key of
\* the field list gives INVALID_KEY and leaves the frame expecting a key;
\* a SCALAR that is a key records the index of the first field with that
\* key and makes the frame expect a value; neither writes an output byte
\* nor changes the depth of the stack.
C7_KeyLookup ==
    ExpectsKey =>
        \A t \in TextsFor(args.schema) :
            \A r \in Outcomes(Event(TRUE, "SCALAR", t)) :
                LET m == FirstMatch(SchemaNode(TopFrame.m_schema).fields, t)
                IN  /\ r[1].fault = "none"
                    /\ r[1].heap = heap
                    /\ Len(r[1].stack) = Len(stack)
                    /\ IF m < 0
                       THEN /\ r[2] = "INVALID_KEY"
                            /\ TopOf(r[1]).m_state = "KEY"
                       ELSE /\ r[2] = "OK"
                            /\ TopOf(r[1]).schema_idx = m
                            /\ TopOf(r[1]).m_state = "VALUE"

\* A load has stopped on a text that is no key of the mapping.
C7_UnknownKey ==
    /\ pc = "out"
    /\ err = "INVALID_KEY"
    /\ TopFrame.state = "IN_MAPPING"
    /\ TopFrame.m_state = "KEY"

\* The mask of each state, as the handlers are described.
StateMask(f) ==
    CASE f.state = "START" -> {"STREAM_START"}
      [] f.state = "IN_STREAM" -> {"DOC_START", "STREAM_END"}
      [] f.state = "IN_DOC" -> {"MAPPING_START", "DOC_END"}
      [] f.state = "IN_MAPPING" /\ f.m_state = "KEY" ->
            {"SCALAR", "MAPPING_END"}
      [] f.state = "IN_MAPPING" /\ f.m_state = "VALUE" ->
            {"SCALAR", "SEQ_START", "MAPPING_START"}
      [] f.state = "IN_SEQUENCE" ->
            {"SCALAR", "SEQ_START", "MAPPING_START", "SEQ_END"}
      [] OTHER -> {}

\* What the pump is to answer for the event ev in the frame f.
PumpCode(f, ev) ==
    IF ~ev.ok THEN "LIBYAML_PARSER"
    ELSE IF ev.kind = "ALIAS" THEN "ALIAS"
    ELSE IF ev.kind \notin StateMask(f) THEN "UNEXPECTED_EVENT"
    ELSE "OK"

\* C8: in every state the pump answers LIBYAML_PARSER for a producer
\* failure, else ALIAS for an alias, else UNEXPECTED_EVENT for a kind
\* outside the state's mask, else OK; on a non-OK answer the handler
\* returns it and changes neither the stack nor the output.
C8_PumpPrecedence ==
    pc = "loop" =>
        \A ev \in AnyEvent :
            \A r \in Outcomes(ev) :
                IF PumpCode(TopFrame, ev) # "OK"
                THEN /\ r[2] = PumpCode(TopFrame, ev)
                     /\ r[1].stack = stack
                     /\ r[1].cur = cur
                     /\ r[1].heap = heap
                     /\ r[1].fault = "none"
                ELSE r[2] \notin {"LIBYAML_PARSER", "ALIAS", "UNEXPECTED_EVENT"}

\* A load has stopped in a sequence on an event outside the mask.
C8_RefusedInSequence ==
    /\ pc = "out"
    /\ err = "UNEXPECTED_EVENT"
    /\ TopFrame.state = "IN_SEQUENCE"

ValueEvents ==
    { ev \in AnyEvent :
          ev.ok /\ ev.kind \in {"SCALAR", "SEQ_START", "MAPPING_START"} }

\* C9: a value whose schema node is of kind FLAGS or IGNORE makes the
\* handler return BAD_TYPE_IN_SCHEMA.
C9_UnimplementedKindsRejected ==
    ( /\ ExpectsValue
      /\ FieldNode(TopFrame).type \in {"FLAGS", "IGNORE"} ) =>
            \A ev \in ValueEvents :
                \A r \in Outcomes(ev) : r[2] = "BAD_TYPE_IN_SCHEMA"

\* The event kind that introduces a value of the schema kind `type`.
IntroducedBy(type) ==
    CASE type \in ScalarTypes -> "SCALAR"
      [] type = "MAPPING" -> "MAPPING_START"
      [] type \in {"SEQUENCE", "SEQUENCE_FIXED"} -> "SEQ_START"
      [] OTHER -> "NONE"

\* The target a new frame of the field is to have in world w: the block
\* newly placed for it and stored in the slot, or the slot itself when the
\* value is stored in place.
PlacedTarget(w, slot, placed, data) ==
    IF placed
    THEN /\ data.off = 0
         /\ data.blk > Len(heap)
         /\ Valid(w.heap, data, 0)
         /\ ReadPtr(w.heap, slot) = data.blk
    ELSE data = slot

\* One frame more than before, in state `state`, for the field's schema.
PushedOne(w, state, schema) ==
    /\ Len(w.stack) = Len(stack) + 1
    /\ SubSeq(w.stack, 1, Len(stack) - 1) = SubSeq(stack, 1, Len(stack) - 1)
    /\ TopOf(w).state = state
    /\ TopOf(w).schema = schema

\* C10: for the value of a mapping field, an event kind that does not
\* match the schema kind gives INVALID_VALUE and pushes no frame; a
\* MAPPING_START for a MAPPING pushes exactly one IN_MAPPING frame with
\* the child schema and the placed target, a SEQ_START for a sequence
\* pushes exactly one IN_SEQUENCE frame (unless the handler reports that
\* it ran out of memory, and then it pushes nothing).
C10_ValueKinds ==
    ( /\ ExpectsValue
      /\ IntroducedBy(FieldNode(TopFrame).type) # "NONE" ) =>
            \A ev \in ValueEvents :
                \A r \in Outcomes(ev) :
                    LET node == FieldNode(TopFrame)
                    IN  IF ev.kind # IntroducedBy(node.type)
                        THEN /\ r[2] = "INVALID_VALUE"
                             /\ Len(r[1].stack) = Len(stack)
                        ELSE IF node.type \in ScalarTypes THEN TRUE
                        ELSE \/ /\ r[2] = "OOM"
                                /\ Len(r[1].stack) = Len(stack)
                             \/ /\ r[2] = "OK"
                                /\ r[1].fault = "none"
                                /\ PushedOne(r[1],
                                       IF node.type = "MAPPING"
                                       THEN "IN_MAPPING" ELSE "IN_SEQUENCE",
                                       FieldEntry(TopFrame).value)
                                /\ PlacedTarget(r[1], FieldSlot(TopFrame),
                                       node.type = "MAPPING" /\ node.ptr,
                                       TopOf(r[1]).data)

\* C11: the loop runs only while err is OK; from the label out no event
\* is pulled and err is returned as it is; the free routine is called
\* exactly once after an error, with the stack not yet unwound, and never
\* after a success.
C11_ErrorsTerminal ==
    /\ [](pc \in {"loop", "fin"} => err = "OK" /\ frees = <<>>)
    /\ [](pc = "out" => frees = <<>>)
    /\ [][pc = "out" =>
            /\ pc' \in {"ret", "ub"}
            /\ err' = err
            /\ nevents' = nevents
            /\ event' = event
            /\ frees' = IF err # "OK" THEN <<Len(stack)>> ELSE <<>>]_vars
    /\ [][pc = "ret" => nevents' = 0 /\ pc' = "idle"]_vars

\* A load that failed four frames deep or deeper has returned, the free
\* routine having run once.
C11_FreedOnce ==
    /\ pc = "ret"
    /\ err \notin {"OK", "OOM"}
    /\ Len(frees) = 1
    /\ frees[1] >= 4

\* The pointer slots that hold the address of block b: the places
\* <<block, offset>> of live blocks where its eight cells are stored.
SlotsHolding(b) ==
    { sl \in UNION { { <<c, o>> : o \in 0..(Len(heap[c].cells) - PtrSize) } :
                     c \in { c \in 1..Len(heap) : heap[c].live } } :
          CellsAt(heap, Addr(sl[1], sl[2]), PtrSize) = PtrCells(b) }

\* C12: at every point of a load each block that the placement engine
\* allocated is referenced by exactly one pointer slot of the output.
C12_StrictTree ==
    pc \in {"loop", "fin"} =>
        \A b \in 1..Len(heap) :
            (heap[b].live /\ b # root) => Cardinality(SlotsHolding(b)) = 1

\* C13: after every event that a handler processed with result OK, the
\* depth of the stack is one (the START frame) plus the number of
\* constructs open in the event stream.
C13_DepthFollowsNesting ==
    pc \in {"loop", "fin"} => Len(stack) = 1 + open

\* C14: every frame's schema kind matches its state: a frame IN_MAPPING
\* has a MAPPING schema, a frame IN_SEQUENCE a SEQUENCE or SEQUENCE_FIXED
\* schema, so that no push fails its assertion (the only assertion a
\* handler can fail is the decoder's, on a SCALAR) and no handler returns
\* INTERNAL_ERROR; the frames START, IN_STREAM and IN_DOC and the mapping
\* frame pushed from IN_DOC carry the top schema and the root allocation.
C14_FramesMatchSchema ==
    pc \in {"loop", "fin", "out"} =>
        /\ \A i \in 1..Len(stack) :
              /\ stack[i].state = "IN_MAPPING" =>
                    /\ SchemaNode(stack[i].schema).type = "MAPPING"
                    /\ stack[i].m_schema = stack[i].schema
              /\ stack[i].state = "IN_SEQUENCE" =>
                    SchemaNode(stack[i].schema).type
                        \in {"SEQUENCE", "SEQUENCE_FIXED"}
              /\ stack[i].state \in {"START", "IN_STREAM", "IN_DOC"} =>
                    /\ stack[i].schema = args.schema
                    /\ stack[i].data = Addr(root, 0)
              /\ (i > 1 /\ stack[i - 1].state = "IN_DOC") =>
                    /\ stack[i].state = "IN_MAPPING"
                    /\ stack[i].schema = args.schema
                    /\ stack[i].data = Addr(root, 0)
        /\ pc = "loop" =>
              \A ev \in AnyEvent : \A r \in Outcomes(ev) :
                  /\ r[2] # "INTERNAL_ERROR"
                  /\ r[1].fault = "assert" => ev.kind = "SCALAR"

\* The root mapping frame lies on the IN_DOC frame and a sequence frame
\* lies on it.
C14_RootAndSequence ==
    /\ pc = "loop"
    /\ Len(stack) = 5
    /\ stack[3].state = "IN_DOC"
    /\ stack[4].state = "IN_MAPPING"
    /\ stack[5].state = "IN_SEQUENCE"

\* C15: a mapping frame that waits for a value is the top frame and its
\* field index is a position of the mapping's field list (never
\* CYAML_SCHEMA_IDX_NONE); a mapping frame below the top, and one that is
\* the top again after a pop, waits for a key; a key handled with OK makes
\* the frame wait for a value and a value handled with OK makes it wait
\* for a key.
C15_KeysValuesAlternate ==
    /\ [](pc \in {"loop", "fin", "out"} =>
            \A i \in 1..Len(stack) :
                (stack[i].state = "IN_MAPPING" /\ stack[i].m_state = "VALUE")
                    => /\ i = Len(stack)
                       /\ stack[i].schema_idx # CYAML_SCHEMA_IDX_NONE
                       /\ stack[i].schema_idx + 1 \in
                              1..Len(SchemaNode(stack[i].m_schema).fields))
    /\ [][(/\ pc = "loop" /\ pc' = "loop"
           /\ Len(stack') < Len(stack)
           /\ TopFrame'.state = "IN_MAPPING")
              => TopFrame'.m_state = "KEY"]_vars
    /\ [][(ExpectsKey /\ pc' = "loop" /\ Len(stack') = Len(stack))
              => ExpectsValue']_vars
    /\ [][(ExpectsValue /\ pc' = "loop")
              => stack'[Len(stack)].m_state = "KEY"]_vars

\* A value of the field m was a mapping; its frame was pushed and popped
\* and the parent mapping waits for a key again.
C15_ParentAfterChild ==
    /\ pc = "loop"
    /\ args.schema = "TPtr"
    /\ Len(stack) = 4
    /\ TopFrame.m_state = "KEY"
    /\ TopFrame.schema_idx = 0
    /\ Len(heap) >= 2

\* The events that introduce a value.
ValueIntro ==
    { ev \in AnyEvent : ev.kind \in {"SCALAR", "SEQ_START", "MAPPING_START"} }

\* The first n cells of the block a sequence frame holds (none before the
\* first element).
ElementCells(h, f, n) ==
    IF n = 0 THEN <<>> ELSE SubSeq(h[f.seq_data.blk].cells, 1, n)

\* What an append to the owned sequence of frame f leaves in world w, in
\* frame g: the block of data_size * count cells, its address in the
\* parent's slot, the elements that were there, and a slot that was zeroed
\* (it is still if no value was decoded into it).
Appended(w, e, f, g, size) ==
    /\ g.count = f.count + 1
    /\ g.seq_data.blk \in 1..Len(w.heap)
    /\ g.seq_data.off = 0
    /\ w.heap[g.seq_data.blk].live
    /\ Len(w.heap[g.seq_data.blk].cells) = size * g.count
    /\ CellsAt(w.heap, f.data, PtrSize) = PtrCells(g.seq_data.blk)
    /\ ElementCells(w.heap, g, size * f.count)
           = ElementCells(heap, f, size * f.count)
    /\ \A c \in 1..size :
           w.heap[g.seq_data.blk].cells[size * f.count + c] # Uninit
    /\ e # "OK" =>
           CellsAt(w.heap, AddrPlus(g.seq_data, size * f.count), size)
               = Zeros(size)

\* C16: for a sequence with the owning-pointer flag, every append leaves
\* the current base of the element block in the parent's pointer slot,
\* a block of element_size * count cells, the earlier elements as they
\* were and a new slot that was zeroed before the value was decoded; no
\* access goes through a base that a growth invalidated.
C16_OwnedSequenceGrowth ==
    (/\ pc = "loop"
     /\ TopFrame.state = "IN_SEQUENCE"
     /\ SchemaNode(TopFrame.schema).ptr) =>
        \A ev \in ValueIntro : \A r \in Outcomes(ev) :
            /\ r[1].fault = "none"
            /\ IF r[2] = "OOM"
               THEN r[1].heap = heap /\ r[1].stack = stack
               ELSE Appended(r[1], r[2], TopFrame, r[1].stack[Len(stack)],
                             SchemaNode(TopFrame.schema).data_size)

\* C17: for an element appended to a sequence the placement engine runs
\* once, in the append path: the allocator is called once for a sequence
\* with the owning-pointer flag and not at all for one stored inline,
\* whatever the element schema is; the count goes up by one and the
\* element pointer of an inline sequence stays as it was.
C17_PlacedOncePerElement ==
    (pc = "loop" /\ TopFrame.state = "IN_SEQUENCE") =>
        \A ev \in ValueIntro : \A r \in Outcomes(ev) :
            r[1].fault = "none" =>
                /\ r[1].k = IF SchemaNode(TopFrame.schema).ptr THEN 1 ELSE 0
                /\ r[2] # "OOM" =>
                      r[1].stack[Len(stack)].count = TopFrame.count + 1
                /\ ~SchemaNode(TopFrame.schema).ptr =>
                      /\ r[1].stack[Len(stack)].seq_data = TopFrame.seq_data
                      /\ Len(r[1].heap) = Len(heap)

\* C18: a handler returns the error of the step that failed and does
\* nothing after it: when an allocation fails while a value is placed or a
\* frame is pushed, the handler returns OOM; when it is the handler's
\* first allocation, no byte of the heap is written and no frame is
\* pushed.
C18_FailureReturnedAtOnce ==
    pc = "loop" =>
        \A ev \in ValueIntro : \A r \in Outcomes(ev) :
            (r[1].fails \cap 1..r[1].k # {}) =>
                /\ r[2] = "OOM"
                /\ 1 \in r[1].fails =>
                      /\ r[1].heap = heap
                      /\ Len(r[1].stack) = Len(stack)

\* A bound on the steps a load can still take: four for each event left
\* in the stream, and those from the loop to the return.
StepsLeft ==
    4 * (MaxEvents - nevents)
        + CASE pc = "loop" -> 3 [] pc = "fin" -> 2 [] pc = "out" -> 1
            [] OTHER -> 0

\* C19: an iteration of the loop pulls one event: the producer delivers
\* one, or fails and the load goes to its exit with LIBYAML_PARSER.  The
\* loop ends with success exactly when the START frame is the top again,
\* which is exactly when the event handled was STREAM_END; no event is
\* pulled after the loop.  The events pulled never exceed those of the
\* stream, and every step of a load brings it nearer to its end: the
\* events left in the stream and the steps left after the loop go down.
C19_LoopBoundedByStream ==
    /\ [][pc = "loop" =>
            \/ nevents' = nevents + 1
            \/ /\ nevents' = nevents
               /\ pc' = "out"
               /\ err' = "LIBYAML_PARSER"]_vars
    /\ [][pc = "loop" =>
            (pc' = "fin" <=> /\ pc' \notin {"ub", "abort"}
                             /\ err' = "OK"
                             /\ TopFrame'.state = "START")]_vars
    /\ [](pc = "loop" =>
            \A ev \in AnyEvent : \A r \in Outcomes(ev) :
                (r[2] = "OK" /\ r[1].fault = "none") =>
                    /\ ev.ok
                    /\ ev.kind = "STREAM_END" <=> TopOf(r[1]).state = "START")
    /\ [][(pc \in {"fin", "out"}) => nevents' = nevents]_vars
    /\ [](nevents <= MaxEvents)
    /\ [][(pc \in {"loop", "fin", "out"}) => StepsLeft' < StepsLeft]_vars

\* The loop has ended on STREAM_END, the last event of a stream of
\* MaxEvents events.
C19_WholeStreamPulled ==
    /\ pc = "fin"
    /\ nevents = MaxEvents
    /\ Len(stack) = 1

\* C20: an event the producer delivered is released exactly once before
\* the handler returns, whatever the handler returns: by the pump when it
\* refuses the event (ALIAS, UNEXPECTED_EVENT), by the handler otherwise;
\* nothing is released when the producer delivered nothing, and nothing
\* is released after the loop.
C20_EventReleasedOnce ==
    /\ [](pc = "loop" =>
            \A ev \in AnyEvent : \A r \in Outcomes(ev) :
                r[1].fault = "none" =>
                    /\ r[1].event.deletes = IF ev.ok THEN 1 ELSE 0
                    /\ r[1].event.kind = "NONE"
                    /\ ~ev.ok => r[2] = "LIBYAML_PARSER")
    /\ [][(pc = "loop" /\ pc' \in {"loop", "fin", "out"}) =>
            event'.deletes = nevents' - nevents]_vars
    /\ [][(pc \in {"fin", "out"}) => event' = event]_vars

\* A handler has returned an error of its own, four events or more into
\* the stream, with the event it pulled released.
C20_ReleasedOnFailure ==
    /\ pc = "out"
    /\ err \in {"INVALID_KEY", "INVALID_VALUE", "OOM"}
    /\ nevents >= 4
    /\ event.deletes = 1

\* C21: no handler reads or writes a frame through a frame pointer taken
\* before a call that can push, and so move the stack buffer: whatever
\* event arrives and whatever the allocator does (fail, grow in place,
\* move the buffer), no access of the mapping-value handler, the sequence
\* handler, the append path or the push goes through a pointer into a
\* buffer that is no longer the stack, and after a push that succeeded
\* the cursor designates the new top frame of the current buffer.
C21_NoStaleFramePointer ==
    pc = "loop" =>
        \A ev \in AnyEvent : \A r \in Outcomes(ev) :
            /\ r[1].fault # "stale"
            /\ (r[1].fault = "none" /\ r[2] = "OK"
                    /\ Len(r[1].stack) > Len(stack))
                => r[1].cur = Cur(r[1].stack_base, Len(r[1].stack) - 1)

\* The value handler of a mapping has pushed the frame that did not fit in
\* the first chunk: the buffer has moved, and the frame the handler had a
\* pointer to carries the sub-state it set before the push.
C21_PushedAcrossMove ==
    /\ pc = "loop"
    /\ Len(stack) = StackChunk + 1
    /\ stack_max = 2 * StackChunk
    /\ stack_base = 2
    /\ cur = Cur(stack_base, StackChunk)
    /\ stack[StackChunk].state = "IN_MAPPING"
    /\ stack[StackChunk].m_state = "KEY"
    /\ stack[StackChunk].schema_idx # 0 \/ TopFrame.state = "IN_MAPPING"

\* The result <<world, err>> of the handler of the top frame on the event
\* ev, had the process come to the call with errno e.
DispatchWithErrno(e, fails, moves, ev) ==
    Dispatch([World(fails, moves) EXCEPT !.errno = e], ev)

\* C22: what a load returns and stores is a function of the schema and of
\* the events only: at every point of a load, whatever calls the process
\* made before, the handler returns the error code and leaves the bytes
\* it would with errno clear; an INT text in range is stored although an
\* earlier conversion left errno at ERANGE.
C22_OutcomeOfInputOnly ==
    (pc = "loop" /\ errno # 0) =>
        \A ev \in AnyEvent :
            \A fails \in FailChoices(Dispatch(World({}, FALSE), ev)[1].k),
               moves \in BOOLEAN :
                /\ DispatchWithErrno(errno, fails, moves, ev)[2]
                      = DispatchWithErrno(0, fails, moves, ev)[2]
                /\ DispatchWithErrno(errno, fails, moves, ev)[1].heap
                      = DispatchWithErrno(0, fails, moves, ev)[1].heap

\* The number of elements of schema node `node` that fit between the
\* address a sequence frame stores its elements at and the end of the
\* aggregate that holds them.
Room(h, f, node) == (Len(h[f.data.blk].cells) - f.data.off) \div node.data_size

\* C23: a sequence stored inline (SEQUENCE without the owning-pointer flag,
\* SEQUENCE_FIXED) never holds more elements than fit in its parent: no
\* append writes beyond the parent aggregate, and a value-introducing
\* event that arrives when the sequence is full is refused with an error
\* and leaves the output as it was.
C23_InlineSequenceBounded ==
    ( /\ pc = "loop"
      /\ TopFrame.state = "IN_SEQUENCE"
      /\ ~SchemaNode(TopFrame.schema).ptr ) =>
        /\ TopFrame.count <= Room(heap, TopFrame, SchemaNode(TopFrame.schema))
        /\ \A ev \in ValueIntro : \A r \in Outcomes(ev) :
               /\ r[1].fault = "none"
               /\ TopFrame.count
                     = Room(heap, TopFrame, SchemaNode(TopFrame.schema))
                  => (r[2] # "OK" /\ r[1].heap = heap)

\* C24: the assertion of the scalar decoder never fails: in a mapping
\* frame that waits for the value of a field of a scalar kind (INT, UINT,
\* BOOL, ENUM, STRING), a SCALAR event is decoded or refused with an error
\* code, whatever its text.
C24_DecoderForEveryScalarKind ==
    ( /\ pc = "loop"
      /\ TopFrame.state = "IN_MAPPING"
      /\ TopFrame.m_state = "VALUE"
      /\ FieldNode(TopFrame).type \in ScalarTypes ) =>
        \A t \in TextsFor(args.schema) :
            \A r \in Outcomes(Event(TRUE, "SCALAR", t)) :
                r[1].fault # "assert"

\* The states a frame can be pushed for and the schemas it can be pushed
\* with: a mapping, a sequence and a scalar.
PushStates == {"START", "IN_STREAM", "IN_DOC", "IN_MAPPING", "IN_SEQUENCE"}
PushSchemas == {"TDeep", "DSeq", "TInt"}

\* The index is within the capacity; the cursor is NULL on an empty stack
\* and designates the top frame of the current buffer otherwise.
StackShape(w) ==
    /\ stack_idx(w) <= w.stack_max
    /\ w.cur = IF stack_idx(w) = 0 THEN NullCur
               ELSE Cur(w.stack_base, stack_idx(w) - 1)

\* What a push that returned e in world w2 has done to the stack of world
\* w: one frame more above the frames there were, or nothing; a capacity
\* that is the same or at least one chunk larger.
PushEffect(w, w2, e) ==
    /\ e \in {"OK", "OOM", "INTERNAL_ERROR"}
    /\ IF e = "OK"
       THEN /\ stack_idx(w2) = stack_idx(w) + 1
            /\ SubSeq(w2.stack, 1, stack_idx(w)) = w.stack
       ELSE w2.stack = w.stack
    /\ w2.stack_max = w.stack_max \/ w2.stack_max >= w.stack_max + 16
    /\ e = "OOM" => w2.stack_max = w.stack_max /\ w2.cur = w.cur

\* What a pop that returned e in world w2 has done to the stack of world
\* w: nothing but INTERNAL_ERROR on an empty stack, the top frame removed
\* otherwise.
PopEffect(w, w2, e) ==
    IF stack_idx(w) = 0
    THEN e = "INTERNAL_ERROR" /\ w2 = w
    ELSE /\ e = "OK"
         /\ w2.stack = SubSeq(w.stack, 1, stack_idx(w) - 1)
         /\ w2.stack_max = w.stack_max
         /\ w2.stack_base = w.stack_base

\* The worlds a push can be called in: the context as it is, with the
\* choices of the allocator.
PushWorlds == { World(fails, moves) : fails \in FailChoices(1), moves \in BOOLEAN }

====
